---------------------------- MODULE Spec2Model ----------------------------
(***************************************************************************)
(* A model of the MSP430 instruction decoder of instructions.py:           *)
(* Instruction.decode, SourceOperand.decode and DestOperand.decode.        *)
(*                                                                         *)
(* Python's None is modelled by the empty tuple << >> and a present value  *)
(* x of an optional field by the one-element tuple <<x>>, so that a field  *)
(* that is either None or a value always has one TLA+ type.                *)
(***************************************************************************)
EXTENDS Integers, Sequences, FiniteSets, TLC

None == << >>
Some(x) == <<x>>

(***************************************************************************)
(* Bounds of the model (not program constants).                            *)
(***************************************************************************)
\* longest byte buffer handed to Instruction.decode
MaxLen == 6
\* register fields of two-operand and one-operand words range over 0..MaxReg
MaxReg == 3

(***************************************************************************)
(* Program constants.                                                      *)
(***************************************************************************)
WORD_WIDTH == 2
BYTE_WIDTH == 1

REGISTER_MODE == 0
INDEXED_MODE == 1
INDIRECT_REGISTER_MODE == 2
INDIRECT_AUTOINCREMENT_MODE == 3
SYMBOLIC_MODE == 4
ABSOLUTE_MODE == 5
IMMEDIATE_MODE == 6
CONSTANT_MODE0 == 7
CONSTANT_MODE1 == 8
CONSTANT_MODE2 == 9
CONSTANT_MODE4 == 10
CONSTANT_MODE8 == 11
CONSTANT_MODE_NEG1 == 12
OFFSET == 13

\* the word 0x4130 tested at the top of Instruction.decode
RET_WORD == 16688
\* the value 0xf0 tested by the dint rewrite
DINT_VALUE == 240

\* OperandLengths[mode] of the source is 0-indexed; here the index is mode + 1
OperandLengths == <<0, 2, 0, 0, 2, 2, 2, 0, 0, 0, 0, 0, 0, 0>>

\* Registers[i] of the source is 0-indexed; here the index is i + 1
Registers ==
    <<"pc", "sp", "sr", "cg", "r4", "r5", "r6", "r7",
      "r8", "r9", "r10", "r11", "r12", "r13", "r14", "r15">>

TYPE1_INSTRUCTIONS ==
    {"mov", "add", "addc", "subc", "sub", "cmp",
     "dadd", "bit", "bic", "bis", "xor", "and"}

TYPE2_INSTRUCTIONS ==
    {"rrc", "swpb", "rra", "sxt", "push", "call", "reti", "br"}

TYPE3_INSTRUCTIONS ==
    {"jnz", "jz", "jnc", "jc", "jn", "jge", "jl", "jmp"}

\* InstructionNames[opcode]: None, a list of names (opcodes 1..3) or one name.
\* A single name is kept as Some(name) so that it can be compared with None.
InstructionNames ==
    [opcode \in 0..15 |->
        CASE opcode = 0 -> None
          [] opcode = 1 -> <<"rrc", "swpb", "rra", "sxt", "push", "call", "reti">>
          [] opcode = 2 -> <<"jnz", "jz", "jnc", "jc">>
          [] opcode = 3 -> <<"jn", "jge", "jl", "jmp">>
          [] opcode = 4 -> Some("mov")
          [] opcode = 5 -> Some("add")
          [] opcode = 6 -> Some("addc")
          [] opcode = 7 -> Some("subc")
          [] opcode = 8 -> Some("sub")
          [] opcode = 9 -> Some("cmp")
          [] opcode = 10 -> Some("dadd")
          [] opcode = 11 -> Some("bit")
          [] opcode = 12 -> Some("bic")
          [] opcode = 13 -> Some("bis")
          [] opcode = 14 -> Some("xor")
          [] opcode = 15 -> Some("and")]

\* InstructionMask and InstructionMaskShift: dictionaries keyed by opcode
InstructionMask == [opcode \in {1, 2, 3} |-> IF opcode = 1 THEN 896 ELSE 3072]

InstructionMaskShift == [opcode \in {1, 2, 3} |-> IF opcode = 1 THEN 7 ELSE 10]

(***************************************************************************)
(* Integer operators of Python, on the widths the decoder uses.            *)
(***************************************************************************)
RECURSIVE Pow2(_)
Pow2(n) == IF n = 0 THEN 1 ELSE 2 * Pow2(n - 1)

RECURSIVE BitAndNat(_, _)
BitAndNat(a, b) ==
    IF a = 0 \/ b = 0 THEN 0
    ELSE (a % 2) * (b % 2) + 2 * BitAndNat(a \div 2, b \div 2)

\* a & m for a mask 0 <= m < 2^16: Python's integers are two's complement of
\* unbounded width, so the low 16 bits of a negative a are a mod 2^16
BitAnd(a, m) == BitAndNat(a % 65536, m)

\* a >> n for a >= 0
ShiftRight(a, n) == a \div Pow2(n)

\* data[lo:hi] of Python (0-based, end-exclusive, clipped to the buffer)
Slice(data, lo, hi) ==
    LET top == IF hi < Len(data) THEN hi ELSE Len(data)
    IN  IF lo >= top THEN << >> ELSE SubSeq(data, lo + 1, top)

\* struct.unpack('<H', b)[0] for a two-byte b
UnpackLE16(b) == b[1] + 256 * b[2]


(***************************************************************************)
(* Operand(mode, target, width, value, operand_length): Operand.__init__   *)
(***************************************************************************)
Operand(mode, target, width, value, operand_length) ==
    [mode |-> mode, target |-> target, width |-> width, value |-> value,
     operand_length |-> operand_length]

\* width = BYTE_WIDTH if (instruction & 0x40) >> 6 else WORD_WIDTH
OperandWidth(instruction) ==
    IF ShiftRight(BitAnd(instruction, 64), 6) # 0 THEN BYTE_WIDTH ELSE WORD_WIDTH

(***************************************************************************)
(* SourceOperand.decode                                                    *)
(***************************************************************************)
\* the mode before the register-specific rewriting
SourceRawMode(instr_type, instruction) ==
    IF instr_type = 3 THEN OFFSET ELSE ShiftRight(BitAnd(instruction, 48), 4)

SourceTarget(instr_type, instruction) ==
    IF instr_type = 2 THEN Some(Registers[BitAnd(instruction, 15) + 1])
    ELSE IF instr_type = 1
         THEN Some(Registers[ShiftRight(BitAnd(instruction, 3840), 8) + 1])
         ELSE None

\* faulty variant of SourceMode: the two sr constants exchanged
SourceModeSwapped(target, mode) ==
    IF target = Some("pc") THEN
        IF mode = INDEXED_MODE THEN SYMBOLIC_MODE
        ELSE IF mode = INDIRECT_AUTOINCREMENT_MODE THEN IMMEDIATE_MODE
        ELSE mode
    ELSE IF target = Some("cg") THEN
        IF mode = REGISTER_MODE THEN CONSTANT_MODE0
        ELSE IF mode = INDEXED_MODE THEN CONSTANT_MODE1
        ELSE IF mode = INDIRECT_REGISTER_MODE THEN CONSTANT_MODE2
        ELSE CONSTANT_MODE_NEG1
    ELSE IF target = Some("sr") THEN
        IF mode = INDEXED_MODE THEN ABSOLUTE_MODE
        ELSE IF mode = INDIRECT_REGISTER_MODE THEN CONSTANT_MODE8
        ELSE IF mode = INDIRECT_AUTOINCREMENT_MODE THEN CONSTANT_MODE4
        ELSE mode
    ELSE mode

\* the register-specific rewriting of the source mode (the if/elif chain on target)
SourceMode(target, mode) ==
    IF target = Some("pc") THEN
        IF mode = INDEXED_MODE THEN SYMBOLIC_MODE
        ELSE IF mode = INDIRECT_AUTOINCREMENT_MODE THEN IMMEDIATE_MODE
        ELSE mode
    ELSE IF target = Some("cg") THEN
        IF mode = REGISTER_MODE THEN CONSTANT_MODE0
        ELSE IF mode = INDEXED_MODE THEN CONSTANT_MODE1
        ELSE IF mode = INDIRECT_REGISTER_MODE THEN CONSTANT_MODE2
        ELSE CONSTANT_MODE_NEG1
    ELSE IF target = Some("sr") THEN
        IF mode = INDEXED_MODE THEN ABSOLUTE_MODE
        ELSE IF mode = INDIRECT_REGISTER_MODE THEN CONSTANT_MODE4
        ELSE IF mode = INDIRECT_AUTOINCREMENT_MODE THEN CONSTANT_MODE8
        ELSE mode
    ELSE mode

\* faulty variant of BranchOffset: 512 subtracted in place of the negation
BranchOffsetHalfRange(instruction) ==
    LET offset == BitAnd(instruction, 1023)
    IN  IF BitAnd(offset, 512) # 0 THEN offset - 512 ELSE offset

\* offset = instruction & 0x3ff; if offset & 0x200: offset = -((-offset) & 0x3ff)
BranchOffset(instruction) ==
    LET offset == BitAnd(instruction, 1023)
    IN  IF BitAnd(offset, 512) # 0 THEN -(BitAnd(-offset, 1023)) ELSE offset

SourceOperandDecode(instr_type, instruction, address) ==
    LET width == IF instr_type = 3 THEN None ELSE Some(OperandWidth(instruction))
        target == SourceTarget(instr_type, instruction)
        mode == SourceMode(target, SourceRawMode(instr_type, instruction))
        operand_length == OperandLengths[mode + 1]
    IN  IF instr_type = 3
        THEN Operand(mode, target, width, Some(BranchOffset(instruction)), operand_length)
        ELSE Operand(mode, target, width, None, operand_length)

(***************************************************************************)
(* DestOperand.decode                                                      *)
(***************************************************************************)
DestRawMode(instruction) == ShiftRight(BitAnd(instruction, 128), 7)

DestTarget(instruction) == Some(Registers[BitAnd(instruction, 15) + 1])

\* if target == 'sr' and mode == INDEXED_MODE: mode = ABSOLUTE_MODE
DestMode(target, mode) ==
    IF target = Some("sr") /\ mode = INDEXED_MODE THEN ABSOLUTE_MODE ELSE mode

\* None for an instruction that is not of type 1, else Some(operand)
DestOperandDecode(instr_type, instruction, address) ==
    IF instr_type # 1 THEN None
    ELSE LET target == DestTarget(instruction)
             mode == DestMode(target, DestRawMode(instruction))
         IN  Some(Operand(mode, target, Some(OperandWidth(instruction)), None,
                          OperandLengths[mode + 1]))

(***************************************************************************)
(* Instruction.__init__ and the results of Instruction.decode              *)
(***************************************************************************)
NewInstruction(addr, mnemonic, type_, src, dst, length, emulated) ==
    [kind |-> "Instruction", address |-> addr, mnemonic |-> mnemonic,
     type |-> type_, src |-> src, dst |-> dst, length |-> length,
     emulated |-> emulated]

\* faulty variant of RetInstruction: a length of 4
RetInstructionOperandLength(addr) ==
    NewInstruction(addr, "ret", None, None, None, 4, TRUE)

\* cls(address, 'ret', emulated=True): type_, src, dst and length are defaults
RetInstruction(addr) == NewInstruction(addr, "ret", None, None, None, 2, TRUE)

\* "return None" at the given source line
ReturnNone(line) == [kind |-> "None", line |-> line]

\* an exception leaving Instruction.decode from the given source line
Raised(exc, line) == [kind |-> "raise", exc |-> exc, line |-> line]

\* no return yet
Pending == [kind |-> "pending"]

(***************************************************************************)
(* Opcode classification                                                   *)
(***************************************************************************)
Opcode(instruction) == ShiftRight(BitAnd(instruction, 61440), 12)

\* the mnemonic looked up for a word: [exc |-> FALSE, name |-> None or Some(name)],
\* or [exc |-> TRUE] when the list index is out of range (IndexError)
LookupMnemonic(instruction) ==
    LET opcode == Opcode(instruction)
    IN  IF opcode \in DOMAIN InstructionMask /\ opcode \in DOMAIN InstructionMaskShift
        THEN LET index == ShiftRight(BitAnd(instruction, InstructionMask[opcode]),
                                     InstructionMaskShift[opcode])
                 names == InstructionNames[opcode]
             IN  IF index < Len(names)
                 THEN [exc |-> FALSE, name |-> Some(names[index + 1])]
                 ELSE [exc |-> TRUE]
        ELSE [exc |-> FALSE, name |-> InstructionNames[opcode]]

\* type_ of a mnemonic; 0 stands for the local left unbound
InstructionType(name) ==
    IF name \in TYPE1_INSTRUCTIONS THEN 1
    ELSE IF name \in TYPE2_INSTRUCTIONS THEN 2
    ELSE IF name \in TYPE3_INSTRUCTIONS THEN 3
    ELSE 0

(***************************************************************************)
(* The steps of Instruction.decode that the state machine takes            *)
(***************************************************************************)
\* faulty variant of TotalLength: the source counted in place of the destination
TotalLengthSourceTwice(s, d) ==
    2 + s.operand_length + (IF d # None THEN s.operand_length ELSE 0)

\* length = 2 + src.operand_length + (dst.operand_length if dst else 0)
TotalLength(s, d) ==
    2 + s.operand_length + (IF d # None THEN d[1].operand_length ELSE 0)

\* faulty variant of IsTruncated: a buffer one byte short accepted
IsTruncatedOffByOne(buf, len) == Len(buf) + 1 < len

\* len(data) < length
IsTruncated(buf, len) == Len(buf) < len

\* faulty variant of ExtensionWord: the high byte first
ExtensionWordBigEndian(buf, offset) ==
    LET b == Slice(buf, offset, offset + 2) IN 256 * b[1] + b[2]

\* struct.unpack('<H', data[offset:offset+2])[0]
ExtensionWord(buf, offset) == UnpackLE16(Slice(buf, offset, offset + 2))

\* the 0-based indices of the bytes that data[lo:hi] reads
SliceIndices(buf, lo, hi) == {i \in lo..(hi - 1) : i < Len(buf)}

\* faulty variant of SourceAfterExtension: the buffer tested, not the operand
SourceAfterExtensionWhenPresent(buf, s) ==
    IF Len(Slice(buf, 2, 4)) = 2
    THEN [s EXCEPT !.value = Some(ExtensionWord(buf, 2))]
    ELSE s

\* src after "if src.operand_length: src.value = ..."
SourceAfterExtension(buf, s) ==
    IF s.operand_length # 0
    THEN [s EXCEPT !.value = Some(ExtensionWord(buf, 2))]
    ELSE s

\* offset after the source's extension word
OffsetAfterSource(s) == IF s.operand_length # 0 THEN 4 ELSE 2

\* dst after "if dst and dst.operand_length: dst.value = ..."
DestAfterExtension(buf, s, d) ==
    IF d # None /\ d[1].operand_length # 0
    THEN Some([d[1] EXCEPT !.value = Some(ExtensionWord(buf, OffsetAfterSource(s)))])
    ELSE d

\* faulty variant of IsBranchRewrite: the wrong register
IsBranchRewriteStackPointer(name, d) == name = "mov" /\ d[1].target = Some("sp")

\* mnemonic == 'mov' and dst.target == 'pc'
IsBranchRewrite(name, d) == name = "mov" /\ d[1].target = Some("pc")

\* faulty variant of IsDintRewrite: the destination not tested
IsDintRewriteAnyDest(name, s, d) ==
    name = "bis" /\ s.value = Some(DINT_VALUE)

\* mnemonic == 'bis' and dst.target == 'sr' and src.value == 0xf0
IsDintRewrite(name, s, d) ==
    name = "bis" /\ d[1].target = Some("sr") /\ s.value = Some(DINT_VALUE)

(***************************************************************************)
(* Inputs                                                                  *)
(***************************************************************************)
\* bytes that follow the instruction word in the buffers tried
Tails ==
    {<<240, 0, 52, 18, 255, 255, 255, 255>>,
     <<0, 240, 240, 0, 1, 2, 3, 4>>}

Addresses == {0, 17408}

\* the 10-bit offsets tried for the branch words of the general specification
BranchOffsets == {0, 1, 511, 512, 1023}

\* instruction words tried: every opcode, selector, width and mode; register
\* fields up to MaxReg; branch words with the offsets of BranchOffsets
Words ==
    {w \in 0..65535 :
        IF Opcode(w) \in {2, 3}
        THEN (w % 1024) \in BranchOffsets
        ELSE (w \div 256) % 16 <= MaxReg /\ w % 16 <= MaxReg}

\* every branch word: opcodes 2 and 3 with every selector and every offset
BranchWords == 8192..16383

\* the buffers that start with (a prefix of) the word w, low byte first
Buffers(w, tails) ==
    {SubSeq(<<w % 256, w \div 256>> \o t, 1, n) : t \in tails, n \in 0..MaxLen}

(***************************************************************************)
(* State                                                                   *)
(***************************************************************************)
VARIABLES
    data,          \* the byte buffer passed to Instruction.decode
    address,       \* the address passed to Instruction.decode
    pc,            \* the position in Instruction.decode
    instruction,   \* local: the first word (0 until it is unpacked)
    mnemonic,      \* local: None or Some(name)
    type_,         \* local: 0 until assigned, then 1, 2 or 3
    src,           \* local: None or Some(operand)
    dst,           \* local: None or Some(operand)
    length,        \* local: 0 until computed
    reads,         \* the 0-based indices of the bytes of data read so far
    result         \* what the call returned or raised; Pending until then

vars == <<data, address, pc, instruction, mnemonic, type_, src, dst, length,
          reads, result>>

InitLocals ==
    /\ pc = "fetch"
    /\ instruction = 0
    /\ mnemonic = None
    /\ type_ = 0
    /\ src = None
    /\ dst = None
    /\ length = 0
    /\ reads = {}
    /\ result = Pending

Init ==
    /\ \E w \in Words : data \in Buffers(w, Tails)
    /\ address \in Addresses
    /\ InitLocals

InitBranch ==
    /\ \E w \in BranchWords : data \in Buffers(w, {<<240, 0, 52, 18, 255, 255>>})
    /\ address = 17408
    /\ InitLocals

\* lines 318-327: the length test, the first word, the ret shorthand
Fetch ==
    /\ pc = "fetch"
    /\ IF Len(data) < 2
       THEN /\ result' = ReturnNone(319)
            /\ pc' = "done"
            /\ UNCHANGED <<instruction, reads>>
       ELSE /\ instruction' = UnpackLE16(Slice(data, 0, 2))
            /\ reads' = reads \cup SliceIndices(data, 0, 2)
            /\ IF instruction' = RET_WORD
               THEN result' = RetInstruction(address) /\ pc' = "done"
               ELSE result' = result /\ pc' = "classify"
    /\ UNCHANGED <<data, address, mnemonic, type_, src, dst, length>>

\* lines 329-347: the mnemonic and the instruction type
Classify ==
    /\ pc = "classify"
    /\ LET found == LookupMnemonic(instruction)
       IN  IF found.exc
           THEN /\ result' = Raised("IndexError", 335)
                /\ pc' = "done"
                /\ UNCHANGED <<mnemonic, type_>>
           ELSE IF found.name = None
           THEN /\ result' = ReturnNone(340)
                /\ pc' = "done"
                /\ mnemonic' = None
                /\ UNCHANGED type_
           ELSE /\ mnemonic' = found.name
                /\ type_' = InstructionType(found.name[1])
                /\ pc' = "operands"
                /\ UNCHANGED result
    /\ UNCHANGED <<data, address, instruction, src, dst, length, reads>>

\* lines 349-356: the operands, the length, the test of the buffer against it
DecodeOperands ==
    /\ pc = "operands"
    /\ src' = Some(SourceOperandDecode(type_, instruction, address))
    /\ dst' = DestOperandDecode(type_, instruction, address)
    /\ length' = TotalLength(src'[1], dst')
    /\ IF IsTruncated(data, length')
       THEN result' = ReturnNone(356) /\ pc' = "done"
       ELSE result' = result /\ pc' = "extension"
    /\ UNCHANGED <<data, address, instruction, mnemonic, type_, reads>>

\* lines 358-363: the extension words.  struct.unpack raises struct.error
\* when the slice it is given does not hold two bytes.
ReadExtension ==
    /\ pc = "extension"
    /\ LET off == OffsetAfterSource(src[1])
           srcNeeds == src[1].operand_length # 0
           dstNeeds == dst # None /\ dst[1].operand_length # 0
           srcShort == srcNeeds /\ Len(Slice(data, 2, 4)) # 2
           dstShort == dstNeeds /\ Len(Slice(data, off, off + 2)) # 2
           srcRead == IF srcNeeds THEN SliceIndices(data, 2, 4) ELSE {}
           dstRead == IF dstNeeds THEN SliceIndices(data, off, off + 2) ELSE {}
       IN  IF srcShort
           THEN /\ result' = Raised("struct.error", 360)
                /\ pc' = "done"
                /\ reads' = reads \cup srcRead
                /\ UNCHANGED <<src, dst>>
           ELSE IF dstShort
           THEN /\ src' = Some(SourceAfterExtension(data, src[1]))
                /\ result' = Raised("struct.error", 363)
                /\ pc' = "done"
                /\ reads' = reads \cup srcRead \cup dstRead
                /\ UNCHANGED dst
           ELSE /\ src' = Some(SourceAfterExtension(data, src[1]))
                /\ dst' = DestAfterExtension(data, src[1], dst)
                /\ reads' = reads \cup srcRead \cup dstRead
                /\ pc' = "normalize"
                /\ UNCHANGED result
    /\ UNCHANGED <<data, address, instruction, mnemonic, type_, length>>

\* lines 365-373: the emulated forms and the returned Instruction
Normalize ==
    /\ pc = "normalize"
    /\ result' =
          IF IsBranchRewrite(mnemonic[1], dst)
          THEN NewInstruction(address, "br", Some(type_), src, dst, length, TRUE)
          ELSE IF IsDintRewrite(mnemonic[1], src[1], dst)
          THEN NewInstruction(address, "dint", None, None, None, length, TRUE)
          ELSE NewInstruction(address, mnemonic[1], Some(type_), src, dst, length, FALSE)
    /\ pc' = "done"
    /\ UNCHANGED <<data, address, instruction, mnemonic, type_, src, dst, length,
                   reads>>

Next == Fetch \/ Classify \/ DecodeOperands \/ ReadExtension \/ Normalize

Spec == Init /\ [][Next]_vars

SpecBranch == InitBranch /\ [][Next]_vars

(***************************************************************************)
(* Vocabulary of the properties                                            *)
(***************************************************************************)
\* the first little-endian word of a buffer of at least two bytes
FirstWord(buf) == buf[1] + 256 * buf[2]

\* the call has returned an Instruction
Returned == pc = "done" /\ result.kind = "Instruction"

\* the extra-word byte count of an optional operand, 0 when it is absent
ExtraBytes(o) == IF o = None THEN 0 ELSE o[1].operand_length

\* the modes that take an extension word
ExtensionModes == {INDEXED_MODE, SYMBOLIC_MODE, ABSOLUTE_MODE, IMMEDIATE_MODE}

ConstantModes ==
    {CONSTANT_MODE0, CONSTANT_MODE1, CONSTANT_MODE2, CONSTANT_MODE4,
     CONSTANT_MODE8, CONSTANT_MODE_NEG1}

\* the literal a constant-generator mode stands for
ConstantLiteral(mode) ==
    CASE mode = CONSTANT_MODE0 -> 0
      [] mode = CONSTANT_MODE1 -> 1
      [] mode = CONSTANT_MODE2 -> 2
      [] mode = CONSTANT_MODE4 -> 4
      [] mode = CONSTANT_MODE8 -> 8
      [] mode = CONSTANT_MODE_NEG1 -> -1

\* the reinterpretation table: the final mode of a register and a raw mode
TableMode(reg, raw) ==
    CASE reg = "pc" /\ raw = INDEXED_MODE -> SYMBOLIC_MODE
      [] reg = "pc" /\ raw = INDIRECT_AUTOINCREMENT_MODE -> IMMEDIATE_MODE
      [] reg = "cg" /\ raw = REGISTER_MODE -> CONSTANT_MODE0
      [] reg = "cg" /\ raw = INDEXED_MODE -> CONSTANT_MODE1
      [] reg = "cg" /\ raw = INDIRECT_REGISTER_MODE -> CONSTANT_MODE2
      [] reg = "cg" /\ raw = INDIRECT_AUTOINCREMENT_MODE -> CONSTANT_MODE_NEG1
      [] reg = "sr" /\ raw = INDEXED_MODE -> ABSOLUTE_MODE
      [] reg = "sr" /\ raw = INDIRECT_REGISTER_MODE -> CONSTANT_MODE4
      [] reg = "sr" /\ raw = INDIRECT_AUTOINCREMENT_MODE -> CONSTANT_MODE8
      [] OTHER -> raw

\* the operands of a one- or two-operand word have been decoded
OperandsDecoded == src # None /\ type_ \in {1, 2}

\* bits 5-4 and bit 7 of the word, and the names of its register fields
RawSourceBits(w) == (w \div 16) % 4
RawDestBit(w) == (w \div 128) % 2
LowRegister(w) == Registers[(w % 16) + 1]
HighRegister(w) == Registers[((w \div 256) % 16) + 1]

\* the length of a two-operand word, from its bits alone: 2, plus 2 when the
\* table's final mode of the source takes an extension word, plus 2 when the
\* destination's raw mode is indexed
EncodedLength(w) ==
    2 + (IF TableMode(HighRegister(w), RawSourceBits(w)) \in ExtensionModes
         THEN 2 ELSE 0)
      + (IF RawDestBit(w) = 1 THEN 2 ELSE 0)

(***************************************************************************)
(* C1                                                                      *)
(***************************************************************************)
\* C1 as stated: every returned Instruction, the ret, br and dint records
\* included, has a length in {2, 4, 6} equal to 2 + the extra-word bytes of
\* the record's source + those of the record's destination (0 when absent).
C1_LengthOfRecordOperands ==
    Returned =>
        /\ result.length \in {2, 4, 6}
        /\ result.length = 2 + ExtraBytes(result.src) + ExtraBytes(result.dst)

\* C1 amended: every returned Instruction has a length in {2, 4, 6}; for
\* every record but dint it is 2 + the extra-word bytes of the record's
\* operands; a dint record carries no operands and its length is 2 + the
\* extra-word bytes of the operands decoded from the underlying bis.
C1_LengthInvariant ==
    Returned =>
        /\ result.length \in {2, 4, 6}
        /\ IF result.mnemonic = "dint"
           THEN /\ result.src = None /\ result.dst = None
                /\ result.length = 2 + ExtraBytes(src) + ExtraBytes(dst)
           ELSE result.length = 2 + ExtraBytes(result.src) + ExtraBytes(result.dst)

\* a six-byte instruction with both operands in the record has been returned
C1_Witness ==
    /\ Returned /\ result.mnemonic = "add" /\ result.length = 6
    /\ ExtraBytes(result.src) = 2 /\ ExtraBytes(result.dst) = 2

(***************************************************************************)
(* C2                                                                      *)
(***************************************************************************)
\* C2 as stated: for one- and two-operand words, the final mode of the source
\* and of the destination is the one the reinterpretation table gives for
\* (register, raw mode), and the raw mode for every pair the table omits.
C2_TableForBothOperands ==
    OperandsDecoded =>
        /\ src[1].mode =
              TableMode(IF type_ = 1 THEN HighRegister(instruction)
                                     ELSE LowRegister(instruction),
                        RawSourceBits(instruction))
        /\ dst # None =>
              dst[1].mode = TableMode(LowRegister(instruction), RawDestBit(instruction))

\* C2 amended: the source's final mode follows the table exactly; the
\* destination's final mode is absolute for sr with raw mode indexed and the
\* raw mode (register-direct or indexed) for every other register and mode,
\* pc and cg included.
C2_TableForSourceOnly ==
    OperandsDecoded =>
        /\ src[1].mode =
              TableMode(IF type_ = 1 THEN HighRegister(instruction)
                                     ELSE LowRegister(instruction),
                        RawSourceBits(instruction))
        /\ dst # None =>
              dst[1].mode =
                 IF LowRegister(instruction) = "sr" /\ RawDestBit(instruction) = 1
                 THEN ABSOLUTE_MODE
                 ELSE RawDestBit(instruction)

\* a two-operand word with source @sr (constant 4) and destination x(pc)
C2_Witness ==
    /\ OperandsDecoded /\ type_ = 1
    /\ HighRegister(instruction) = "sr" /\ RawSourceBits(instruction) = 2
    /\ src[1].mode = CONSTANT_MODE4
    /\ LowRegister(instruction) = "pc" /\ RawDestBit(instruction) = 1
    /\ dst[1].mode = INDEXED_MODE

(***************************************************************************)
(* C3                                                                      *)
(***************************************************************************)
\* the words C3 is about: top nibble 0, or top nibble 1, 2 or 3 with a
\* sub-selector that has no mnemonic (7 names for opcode 1, 4 for 2 and 3)
C3_IsInvalidWord(w) ==
    \/ w \div 4096 = 0
    \/ w \div 4096 = 1 /\ (w \div 128) % 8 >= 7
    \/ w \div 4096 \in {2, 3} /\ (w \div 1024) % 4 >= 4

\* C3 as stated: for a buffer of at least two bytes whose first word has no
\* mnemonic, the call returns the invalid-opcode failure (the "return None"
\* of the classification) and never raises.
C3_InvalidOpcodeReturned ==
    (pc = "done" /\ Len(data) >= 2 /\ C3_IsInvalidWord(FirstWord(data))) =>
        result = ReturnNone(340)

(***************************************************************************)
(* C4                                                                      *)
(***************************************************************************)
\* C4: a buffer of fewer than 2 bytes, and a buffer shorter than the length
\* computed for its validly classified first word, make the call return the
\* truncated-input failure (the "return None" of a length test); then no
\* extension word has been read and no operand value assigned.
C4_TruncatedInput ==
    /\ (pc = "done" /\ Len(data) < 2) =>
          result = ReturnNone(319) /\ reads = {}
    /\ (pc = "done" /\ mnemonic # None /\ Len(data) < length) =>
          /\ result = ReturnNone(356)
          /\ reads = {0, 1}
          /\ src[1].value = None
          /\ dst # None => dst[1].value = None

\* a six-byte instruction offered in a five-byte buffer has been refused
C4_Witness ==
    /\ pc = "done" /\ mnemonic # None /\ length = 6 /\ Len(data) = 5
    /\ result = ReturnNone(356)

(***************************************************************************)
(* C5                                                                      *)
(***************************************************************************)
\* the word w with its destination register field (bits 3-0) set to r
WithDestRegister(w, r) == w - (w % 16) + r

\* the length of the two-operand word w, from its operands as decoded
TwoOperandLength(w) ==
    TotalLength(SourceOperandDecode(1, w, 0), DestOperandDecode(1, w, 0))

\* the buffer starts with a mov word whose destination register field is pc
\* and holds the whole instruction
C5_IsMovToPc ==
    /\ pc = "done" /\ Len(data) >= 2
    /\ FirstWord(data) \div 4096 = 4 /\ FirstWord(data) % 16 = 0
    /\ Len(data) >= EncodedLength(FirstWord(data))

\* what C5 says of such a buffer: the record is br, emulated, carries the
\* operands as decoded, and is as long as the same mov with any other
\* destination register
C5_IsBranchRecord ==
    /\ result.kind = "Instruction"
    /\ result.mnemonic = "br" /\ result.emulated = TRUE
    /\ result.type = Some(1)
    /\ result.src = src /\ result.dst = dst
    /\ result.address = address
    /\ \A r \in 1..15 :
          result.length = TwoOperandLength(WithDestRegister(FirstWord(data), r))

\* C5 as stated: every sufficiently long buffer whose first word is a mov
\* with destination register pc decodes to br, emulated, operands unchanged,
\* with the length of the same mov to a register other than pc.
C5_MovToPcIsBranch == C5_IsMovToPc => C5_IsBranchRecord

\* C5 amended: the same, for every such word except the fixed return word
\* 0x4130 (mov @sp+, pc), which decodes to ret.
C5_MovToPcIsBranchUnlessRet ==
    (C5_IsMovToPc /\ FirstWord(data) # RET_WORD) => C5_IsBranchRecord

\* a six-byte mov x(r), y(pc) has been returned as br
C5_Witness ==
    /\ C5_IsMovToPc /\ FirstWord(data) # RET_WORD
    /\ result.kind = "Instruction" /\ result.mnemonic = "br" /\ result.length = 6

(***************************************************************************)
(* C6                                                                      *)
(***************************************************************************)
\* the buffer starts with a bis word (top nibble 13) and holds the whole
\* instruction
C6_IsBisDecoded ==
    /\ pc = "done" /\ Len(data) >= 2 /\ FirstWord(data) \div 4096 = 13
    /\ Len(data) >= EncodedLength(FirstWord(data))

\* C6: a bis with destination register sr whose source value is 0xf0 is
\* returned as dint, emulated, at the caller's address, without class or
\* operands, with the length of the bis; every other bis is returned as bis.
C6_BisToDint ==
    C6_IsBisDecoded =>
        IF FirstWord(data) % 16 = 2 /\ src[1].value = Some(DINT_VALUE)
        THEN result = [kind |-> "Instruction", address |-> address,
                       mnemonic |-> "dint", type |-> None, src |-> None,
                       dst |-> None,
                       length |-> 2 + ExtraBytes(src) + ExtraBytes(dst),
                       emulated |-> TRUE]
        ELSE /\ result.kind = "Instruction"
             /\ result.mnemonic = "bis" /\ result.emulated = FALSE
             /\ result.src = src /\ result.dst = dst

\* a six-byte bis with source value 0xf0 and destination &x has been
\* returned as dint
C6_Witness ==
    /\ C6_IsBisDecoded /\ result.kind = "Instruction"
    /\ result.mnemonic = "dint" /\ result.length = 6 /\ address = 17408

(***************************************************************************)
(* C7                                                                      *)
(***************************************************************************)
\* C7: a buffer of at least two bytes that starts with the return word 0x4130
\* decodes, at every address, to ret with class none, no operands, length 2
\* and emulated set; nothing but the address field depends on the input.
C7_RetWord ==
    (pc = "done" /\ Len(data) >= 2 /\ FirstWord(data) = 16688) =>
        result = [kind |-> "Instruction", address |-> address,
                  mnemonic |-> "ret", type |-> None, src |-> None, dst |-> None,
                  length |-> 2, emulated |-> TRUE]

\* the return word followed by more bytes has been decoded at a non-zero address
C7_Witness ==
    /\ pc = "done" /\ Len(data) = 5 /\ FirstWord(data) = 16688
    /\ address = 17408 /\ result.kind = "Instruction"

(***************************************************************************)
(* C8                                                                      *)
(***************************************************************************)
\* the low 10 bits of a word read as a signed two's-complement number
C8_Signed10(w) == IF (w % 1024) < 512 THEN w % 1024 ELSE (w % 1024) - 1024

\* C8: the source operand of every branch word (top nibble 2 or 3) has mode
\* PC-relative offset, no register, no extension word, and the low 10 bits of
\* the word as a signed number for its value; so has the returned record.
C8_BranchOffset ==
    (src # None /\ instruction \div 4096 \in {2, 3}) =>
        /\ src[1].mode = OFFSET
        /\ src[1].target = None
        /\ src[1].operand_length = 0
        /\ src[1].value = Some(C8_Signed10(instruction))
        /\ dst = None
        /\ pc = "done" =>
              /\ result.kind = "Instruction"
              /\ result.src = src /\ result.length = 2

\* a branch with raw offset field 0x200 has been returned with value -512
C8_Witness ==
    /\ Returned /\ instruction % 1024 = 512
    /\ result.src[1].value = Some(-512)

(***************************************************************************)
(* C9                                                                      *)
(***************************************************************************)
\* the operands of the returned record
C9_Operands ==
    (IF result.src = None THEN {} ELSE {result.src[1]})
        \cup (IF result.dst = None THEN {} ELSE {result.dst[1]})

\* an operand that needs no extension word has the value its decode fixed:
\* the signed offset of a branch, no value otherwise
C9_ValueKept(o) ==
    o.operand_length = 0 =>
        o.value = IF o.mode = OFFSET THEN Some(C8_Signed10(instruction)) ELSE None

\* C9 as stated: in every returned Instruction an operand in a
\* constant-generator mode has that mode's literal as its value, and the
\* extension-word step leaves the value of an operand without extension
\* word unchanged.
C9_ConstantLiteralValue ==
    Returned =>
        \A o \in C9_Operands :
            /\ o.mode \in ConstantModes => o.value = Some(ConstantLiteral(o.mode))
            /\ C9_ValueKept(o)

\* C9 amended: in every returned Instruction an operand in a
\* constant-generator mode has no value (None): the literal is given by the
\* mode alone; and the extension-word step leaves the value of an operand
\* without extension word unchanged.
C9_ConstantHasNoValue ==
    Returned =>
        \A o \in C9_Operands :
            /\ o.mode \in ConstantModes => o.value = None
            /\ C9_ValueKept(o)

\* an instruction with a constant-generator source has been returned from a
\* buffer that holds bytes after the instruction
C9_Witness ==
    /\ Returned /\ result.src # None
    /\ result.src[1].mode = CONSTANT_MODE_NEG1
    /\ result.length = 2 /\ Len(data) = 6

(***************************************************************************)
(* C10                                                                     *)
(***************************************************************************)
\* the little-endian word at the 0-based byte offset i of the buffer
C10_WordAt(i) == data[i + 1] + 256 * data[i + 2]

\* C10: once a one- or two-operand instruction has passed the length test
\* and the extension-word step, a source whose final mode takes an
\* extension word has the word at bytes 2-3 for its value, a destination
\* that takes one has the word at bytes 4-5 when the source takes one too
\* and the word at bytes 2-3 otherwise; the values are in 0..65535 and no
\* byte at or beyond the instruction's length has been read.
C10_ExtensionWords ==
    (type_ \in {1, 2} /\ (pc = "normalize" \/ (pc = "done" /\ result.kind = "Instruction"))) =>
        /\ src[1].mode \in ExtensionModes =>
              /\ src[1].value = Some(C10_WordAt(2))
              /\ src[1].value[1] \in 0..65535
        /\ (dst # None /\ dst[1].mode \in ExtensionModes) =>
              /\ dst[1].value =
                    Some(IF src[1].mode \in ExtensionModes
                         THEN C10_WordAt(4) ELSE C10_WordAt(2))
              /\ dst[1].value[1] \in 0..65535
        /\ reads \subseteq 0..(length - 1)
        /\ pc = "done" => (result.mnemonic # "dint" => result.src = src /\ result.dst = dst)

\* both extension words of a six-byte instruction have been read
C10_Witness ==
    /\ Returned /\ type_ = 1 /\ length = 6
    /\ result.src[1].value = Some(240) /\ result.dst[1].value = Some(4660)
    /\ reads = 0..5

=============================================================================
